---- MODULE Spec2Model ----
(***************************************************************************)
(* State-machine model of the scheduling agent repository:                 *)
(*   agents/scheduling_agent.py   SchedulingAgent.process_request(_sync)    *)
(*   integrations/graph_client.py GraphClient.get_calendar_events           *)
(*   workflows/calendar_flows.py  fetch_calendar_events,                    *)
(*                                process_ai_scheduling_request,            *)
(*                                smart_scheduling_flow,                    *)
(*                                find_available_slots,                     *)
(*                                find_available_times_flow                 *)
(*   integrations/graph_client.py GraphClient.find_meeting_times            *)
(* Spec is one call; ProcSpec is several runs of smart_scheduling_flow side *)
(* by side in one process; TimesSpec is a call of find_available_times_flow.*)
(* The hosted language model behind pydantic_ai's Agent and the Microsoft   *)
(* Graph HTTP endpoint are the environment: the agent returns any value of  *)
(* the output type SchedulingResult or raises, the endpoint answers with    *)
(* any status, raises, or never answers.                                    *)
(* Instants are integers (one unit = one calendar step).                    *)
(***************************************************************************)
EXTENDS Integers, Sequences, FiniteSets, TLC

\* ---------------------------------------------------------------- bounds
MaxTime == 2
MaxSlots == 1
MaxEvents == 1
MaxRuns == 2
MaxSuggestions == 2

\* ------------------------------------------------------------- constants
\* Optional[datetime] = None (start_date / end_date not given)
NoDate == -1
\* timedelta(days=7), the default length of the date range
DefaultRangeDays == 7
\* find_meeting_times(..., max_candidates: int = 20)
DefaultMaxCandidates == 20

Time == 0..MaxTime

\* ------------------------------------------------------------ data model
\* A calendar event as the Graph API returns it: start and end instants.
CalendarEvent == {ev \in [start : Time, end : Time] : ev.start < ev.end}

\* '$orderby': 'start/dateTime' : the store answers ordered by start.
IsOrdered(q) == \A i \in 1..(Len(q) - 1) : q[i].start <= q[i + 1].start

Calendars ==
    {q \in UNION {[1..n -> CalendarEvent] : n \in 0..MaxEvents} : IsOrdered(q)}

\* class TimeSlot(BaseModel): two datetimes and a float, no validator:
\* start_time >= end_time and any confidence are accepted.
Confidence == {1}
TimeSlot == [start_time : Time, end_time : Time, confidence : Confidence]

\* class MeetingRequest(BaseModel): duration_minutes is any int.
AgentTitles == {"Team Meeting"}
AgentAttendees == {<<"alice@example.com">>}
AgentDurations == {60}
MeetingRequest ==
    [title : AgentTitles, duration_minutes : AgentDurations, attendees : AgentAttendees]

SlotLists == UNION {[1..n -> TimeSlot] : n \in 0..MaxSlots}

ConflictText == [prefix : {"conflict: "}, detail : {"busy"}]
ConflictLists == {<<>>} \cup {<<c>> : c \in ConflictText}

\* class SchedulingResult(BaseModel): the output type of the agent.  The
\* schema relates none of its fields to another.
SchedulingResult ==
    [success : BOOLEAN, suggested_slots : SlotLists,
     meeting_details : MeetingRequest, conflicts : ConflictLists]

\* The user's request: free text; `duration` is the meeting length the text
\* asks for (what a reader of the text understands), 0 for the empty text.
RequestedDurations == {0, 1}
UserRequests ==
    {[text |-> "", duration |-> 0]}
        \cup {[text |-> "meeting", duration |-> d] : d \in RequestedDurations}

OptionalDates == {NoDate} \cup Time
\* end_date as callers give it: absent, the first instant, the last instant.
EndDates == {NoDate, 0, MaxTime}

AgentErrors == {"UnexpectedModelBehavior"}

NoResult == [kind |-> "none"]
NoContext == [kind |-> "none"]
NoResponse == [kind |-> "none"]
NoOutcome == [kind |-> "none"]

VARIABLES
    entry,            \* which public operation the caller invoked
    pc,               \* position of the call
    user_request,     \* argument user_request
    start_date,       \* argument / local start_date of the flow
    end_date,         \* argument / local end_date of the flow
    store,            \* the events held by the remote calendar
    fetch_count,      \* HTTP GETs issued for calendar events
    fetch_resp,       \* what the HTTP GET ended with
    calendar_events,  \* local calendar_events of the flow
    context,          \* the context handed to agent.run / agent.run_sync
    agent_outcome,    \* what agent.run ended with
    result,           \* what the operation returned to its caller
    escaped,          \* the exception that reached the caller, if any
    runs,             \* the flow runs going on side by side in the process
    times,            \* a call of find_available_times_flow
    client,           \* a GraphClient and the operation called on it
    sessions          \* the dashboard's browser sessions

\* The rest of the process, which one call neither reads nor writes.
process_vars == <<runs, times, client, sessions>>

call_vars == <<entry, pc, user_request, start_date, end_date, store, fetch_count,
               fetch_resp, calendar_events, context, agent_outcome, result, escaped>>

vars == <<entry, pc, user_request, start_date, end_date, store, fetch_count,
          fetch_resp, calendar_events, context, agent_outcome, result, escaped,
          runs, times, client, sessions>>

\* ------------------------------------------------- integrations/graph_client
\* What the remote calendar answers to the '$filter' of get_calendar_events:
\* the events with start >= start_date and end <= end_date, ordered by start.
ServerFilter(q, s, e) ==
    SelectSeq(q, LAMBDA ev : ev.start >= s /\ ev.end <= e)

StatusCodes == {200, 401, 429, 503}
NotAuthorizedCodes == {401}
TransientCodes == {429, 503}

\* The ways requests.get can end: a response with a status code (a 200 body
\* holds the filtered events under 'value', or lacks the key), or an exception
\* (connection error, read timeout raised by the transport).
Responses(q, s, e) ==
    {[kind |-> "status", code |-> c, has_value |-> FALSE, value |-> <<>>] :
        c \in StatusCodes}
    \cup {[kind |-> "status", code |-> 200, has_value |-> TRUE,
           value |-> ServerFilter(q, s, e)]}
    \cup {[kind |-> "exception", code |-> 0, has_value |-> FALSE, value |-> <<>>]}

\* GraphClient.get_calendar_events: 200 -> response.json().get('value', []),
\* any other status -> [], any exception -> [].
get_calendar_events(resp) ==
    IF resp.kind = "status"
    THEN IF resp.code = 200
         THEN (IF resp.has_value THEN resp.value ELSE <<>>)
         ELSE <<>>
    ELSE <<>>

\* ------------------------------------------------- workflows/calendar_flows
\* A fetch task that loses the client's answer and returns [] in every case.
fetch_calendar_events_dropping(resp) == <<>>

\* task fetch_calendar_events: the client's answer, [] on any exception.
fetch_calendar_events(resp) == get_calendar_events(resp)

\* if not start_date: start_date = datetime.now()
DefaultStart(sd, now) == IF sd = NoDate THEN now ELSE sd
\* if not end_date: end_date = start_date + timedelta(days=7)
DefaultEnd(sd, ed) == IF ed = NoDate THEN sd + DefaultRangeDays ELSE ed

\* calendar_context = {'events': ..., 'date_range': {'start': ..., 'end': ...}}
calendar_context(events, sd, ed) ==
    [kind |-> "calendar", events |-> events, date_range |-> [start |-> sd, end |-> ed]]

NoCalendar == [kind |-> "None"]

\* ------------------------------------------------- tests/conftest
\* busy_calendar_data: meetings back to back, one per step, over the whole
\* business window.
busy_calendar_data ==
    calendar_context([i \in 1..MaxTime |-> [start |-> i - 1, end |-> i]],
                     0, MaxTime)

\* calendar_data: Optional[Dict[str, Any]]: any dict is taken, also one with
\* an event that ends when it starts.
ZeroLengthEvent == [start |-> 0, end |-> 0]
reminder_calendar_data == calendar_context(<<ZeroLengthEvent>>, 0, MaxTime)

\* ------------------------------------------------- agents/scheduling_agent
\* context = f"User request: {user_request} Calendar data:
\*            {calendar_data or 'No calendar data provided'} ..."
AgentContext(request, calendar_data) ==
    [kind |-> "context", request |-> request,
     calendar |-> IF calendar_data = NoCalendar
                  THEN [kind |-> "text", text |-> "No calendar data provided"]
                  ELSE calendar_data]

\* The context the AI task gets when the fetch ended with `resp`.
ContextAfter(resp) ==
    AgentContext(user_request,
        calendar_context(fetch_calendar_events(resp), start_date, end_date))

\* The result built in the except branch of process_request(_sync).
ErrorResult(e) ==
    [success |-> FALSE,
     suggested_slots |-> <<>>,
     meeting_details |-> [title |-> "Error parsing request",
                          duration_minutes |-> 30,
                          attendees |-> <<>>],
     conflicts |-> <<[prefix |-> "Error processing request: ", detail |-> e]>>]

Returned(r) == [ret |-> r, exc |-> "none"]
Raised(e) == [ret |-> NoResult, exc |-> e]

\* process_request whose except branch builds another result than that of
\* process_request_sync (the two branches are separate copies of the code).
process_request_otherDefaults(outcome) ==
    IF outcome.kind = "output"
    THEN Returned(outcome.output)
    ELSE Returned([ErrorResult(outcome.error) EXCEPT !.conflicts = <<>>])

\* SchedulingAgent.process_request: await agent.run(context); result.output,
\* or the error result when anything raises.
process_request(outcome) ==
    IF outcome.kind = "output"
    THEN Returned(outcome.output)
    ELSE Returned(ErrorResult(outcome.error))

\* process_request_sync without its except branch: the exception propagates.
process_request_sync_unguarded(outcome) ==
    IF outcome.kind = "output"
    THEN Returned(outcome.output)
    ELSE Raised(outcome.error)

\* SchedulingAgent.process_request_sync: agent.run_sync(context); same shape.
process_request_sync(outcome) ==
    IF outcome.kind = "output"
    THEN Returned(outcome.output)
    ELSE Returned(ErrorResult(outcome.error))

\* task process_ai_scheduling_request: the result as a dict, or the fallback
\* dict when the agent construction or call raised.
process_ai_scheduling_request(call) ==
    IF call.exc = "none"
    THEN Returned([success |-> call.ret.success,
                   suggested_slots |-> call.ret.suggested_slots,
                   meeting_details |-> call.ret.meeting_details,
                   conflicts |-> call.ret.conflicts])
    ELSE Returned([success |-> FALSE,
                   suggested_slots |-> <<>>,
                   meeting_details |-> [kind |-> "empty"],
                   conflicts |-> <<[prefix |-> "AI processing error: ",
                                    detail |-> call.exc]>>])

\* A flow that hands the request to the AI task before fetching the calendar.
AfterStart_aiFirst == "Resolving"

\* smart_scheduling_flow: the first task called is fetch_calendar_events.
AfterStart == "Fetching"

\* A flow that gives up when the fetch brought nothing back because it failed.
AfterFetch_failFast(resp) ==
    IF resp.kind = "status" /\ resp.code = 200 THEN "Resolving" ELSE "Failed"

\* A flow that issues the fetch again when it brought nothing back because it
\* failed (a task declared with retries).
AfterFetch_retry(resp) ==
    IF resp.kind = "status" /\ resp.code = 200 THEN "Resolving" ELSE "Idle"

\* smart_scheduling_flow: the AI task is called after the fetch task returned,
\* whatever the fetch returned.
AfterFetch(resp) == "Resolving"

\* The three ways a call ends: an except branch ran (of process_request(_sync)
\* or of the AI task), or the agent's output says success or not.
Outcome(outcome, r) ==
    IF outcome.kind \in {"raise", "init_raise"} THEN "Failed"
    ELSE IF r.success THEN "Succeeded" ELSE "Conflicted"

Terminal == {"Succeeded", "Conflicted", "Failed"}

\* ------------------------------------------------ find_meeting_times
\* One entry of 'meetingTimeSuggestions' as the server sends it: the time slot
\* and a confidence, which Graph gives as a percentage; the key may be absent.
SuggestedConfidences == {0, 1, 100}
Suggestion ==
    [start : Time, end : Time, confidence : SuggestedConfidences]
        \cup [start : Time, end : Time]

SuggestionLists == UNION {[1..n -> Suggestion] : n \in 0..MaxSuggestions}

\* The ways requests.post can end: a status (a 200 body holds the server's
\* suggestions under 'meetingTimeSuggestions', or lacks the key), or an
\* exception.
TimesResponses ==
    {[kind |-> "status", code |-> c, has_key |-> FALSE, suggestions |-> <<>>] :
        c \in StatusCodes}
    \cup {[kind |-> "status", code |-> 200, has_key |-> TRUE, suggestions |-> l] :
            l \in SuggestionLists}
    \cup {[kind |-> "exception", code |-> 0, has_key |-> FALSE, suggestions |-> <<>>]}

\* GraphClient.find_meeting_times: 200 -> .get('meetingTimeSuggestions', []),
\* any other status -> [], any exception -> [].  max_candidates goes into the
\* request body only.
find_meeting_times(resp, max_candidates) ==
    IF resp.kind = "status" /\ resp.code = 200 /\ resp.has_key
    THEN resp.suggestions
    ELSE <<>>

\* task find_available_slots: the client's answer, [] on any exception.
find_available_slots(resp) == find_meeting_times(resp, DefaultMaxCandidates)

\* find_available_times_flow: "Process and rank the slots": one dict per slot,
\* in the order received, 'confidence': slot.get('confidence', 0.0).
processed_slot(slot) ==
    [start_time |-> slot.start,
     end_time |-> slot.end,
     confidence |-> IF "confidence" \in DOMAIN slot THEN slot.confidence ELSE 0]

processed_slots(available) ==
    [i \in DOMAIN available |-> processed_slot(available[i])]

\* smart_scheduling_flow is an ordinary function: every caller thread of the
\* process (one per dashboard session) runs its own copy, and the copies
\* share nothing.
Runs == 1..MaxRuns

IdleRun == [pc |-> "Idle", context |-> NoContext, result |-> NoResult]

IdleTimes(d) ==
    [pc |-> "Idle", duration_minutes |-> d, available_slots |-> <<>>,
     total_slots_found |-> 0]

\* Nothing else goes on in the process.
NoRuns == <<>>
NoTimes == [pc |-> "none"]
NoClient == [pc |-> "none"]
NoSessions == <<>>

ProcessIdle ==
    /\ runs = NoRuns
    /\ times = NoTimes
    /\ client = NoClient
    /\ sessions = NoSessions

\* url = f'{self.base_url}/me/calendar/events': the one calendar a run asks
\* for is the signed-in user's, whoever the attendees are.
FetchedCalendars(run) == IF run.pc = "Idle" THEN {} ELSE {"me"}

\* ------------------------------------------------------------------ Init
\* A caller invokes smart_scheduling_flow (entry "flow") with a request and an
\* optional date range, or process_request_sync / process_request directly.
Init ==
    /\ entry \in {"flow", "sync", "async"}
    /\ pc = "Idle"
    /\ user_request \in UserRequests
    /\ start_date \in (IF entry = "flow" THEN OptionalDates ELSE {NoDate})
    /\ end_date \in (IF entry = "flow" THEN EndDates ELSE {NoDate})
    /\ store \in Calendars
    /\ fetch_count = 0
    /\ fetch_resp = NoResponse
    /\ calendar_events = <<>>
    /\ context = NoContext
    /\ agent_outcome = NoOutcome
    /\ result = NoResult
    /\ escaped = "none"
    /\ ProcessIdle

\* --------------------------------------------------------------- actions
\* smart_scheduling_flow up to the HTTP GET of the fetch task: the defaults of
\* the date range, then GraphClient.get_calendar_events issues the request.
StartFlow ==
    /\ pc = "Idle"
    /\ entry = "flow"
    /\ \E now \in Time :
        /\ start_date' = DefaultStart(start_date, now)
        /\ end_date' = DefaultEnd(DefaultStart(start_date, now), end_date)
    /\ fetch_count' = fetch_count + 1
    /\ pc' = AfterStart
    /\ UNCHANGED <<entry, user_request, store, fetch_resp, calendar_events,
                   context, agent_outcome, result, escaped>>
    /\ UNCHANGED process_vars

\* The HTTP GET ends; get_calendar_events and the fetch task return, the flow
\* builds calendar_context and the AI task calls agent.run_sync.
FetchReturn ==
    /\ pc = "Fetching"
    /\ \E resp \in Responses(store, start_date, end_date) :
        /\ fetch_resp' = resp
        /\ calendar_events' = fetch_calendar_events(resp)
        /\ context' = AgentContext(user_request,
                          calendar_context(fetch_calendar_events(resp),
                                           start_date, end_date))
        /\ pc' = AfterFetch(resp)
    /\ UNCHANGED <<entry, user_request, start_date, end_date, store,
                   fetch_count, agent_outcome, result, escaped>>
    /\ UNCHANGED process_vars

\* process_request_sync / process_request called directly, with or without
\* calendar data (the caller's own copy of the calendar, as the test fixtures
\* give it): the context is built and agent.run(_sync) is called.
StartDirect ==
    /\ pc = "Idle"
    /\ entry \in {"sync", "async"}
    /\ \E calendar_data \in {NoCalendar, calendar_context(store, 0, MaxTime),
                            busy_calendar_data, reminder_calendar_data} :
        context' = AgentContext(user_request, calendar_data)
    /\ pc' = "Resolving"
    /\ UNCHANGED <<entry, user_request, start_date, end_date, store,
                   fetch_count, fetch_resp, calendar_events, agent_outcome,
                   result, escaped>>
    /\ UNCHANGED process_vars

\* What the caller gets once agent.run(_sync) ended with `outcome`.
Finish(outcome) ==
    LET call == IF outcome.kind = "init_raise" THEN Raised(outcome.error)
                ELSE IF entry = "async" THEN process_request(outcome)
                ELSE process_request_sync(outcome)
        back == IF entry = "flow" THEN process_ai_scheduling_request(call)
                ELSE call
    IN  /\ agent_outcome' = outcome
        /\ result' = back.ret
        /\ escaped' = back.exc
        /\ pc' = Outcome(outcome, back.ret)
        /\ UNCHANGED <<entry, user_request, start_date, end_date, store,
                       fetch_count, fetch_resp, calendar_events, context>>
        /\ UNCHANGED process_vars

\* The agent returns a value of its output type.
AgentReturn ==
    /\ pc = "Resolving"
    /\ \E out \in SchedulingResult : Finish([kind |-> "output", output |-> out])

\* The agent call raises (model API error, output validation failure).
AgentRaise ==
    /\ pc = "Resolving"
    /\ \E e \in AgentErrors : Finish([kind |-> "raise", error |-> e])

\* The AI task's SchedulingAgent() raises before any agent call (the task's
\* own except branch answers with the fallback dict).
AgentInitRaise ==
    /\ pc = "Resolving"
    /\ entry = "flow"
    /\ \E e \in AgentErrors : Finish([kind |-> "init_raise", error |-> e])

Next ==
    \/ StartFlow
    \/ FetchReturn
    \/ StartDirect
    \/ AgentReturn
    \/ AgentRaise
    \/ AgentInitRaise

Spec == Init /\ [][Next]_vars

\* The program's own steps are taken when enabled; the remote calendar and the
\* hosted model are not obliged to answer (requests.get is called without a
\* timeout, and the flow sets none).
FairSpec == Spec /\ WF_vars(StartFlow) /\ WF_vars(StartDirect)

\* ------------------------------------------------ the process as a whole
\* Several callers invoke smart_scheduling_flow with the same request, date
\* range and access token while the remote calendar does not change.
ProcInit ==
    /\ entry = "flow"
    /\ pc = "Idle"
    /\ user_request \in UserRequests
    /\ start_date = 0
    /\ end_date = MaxTime
    /\ store \in Calendars
    /\ fetch_count = 0
    /\ fetch_resp = NoResponse
    /\ calendar_events = <<>>
    /\ context = NoContext
    /\ agent_outcome = NoOutcome
    /\ result = NoResult
    /\ escaped = "none"
    /\ runs = [q \in Runs |-> IdleRun]
    /\ times = NoTimes
    /\ client = NoClient
    /\ sessions = NoSessions

CallIdle ==
    /\ entry = "flow"
    /\ pc = "Idle"
    /\ user_request = [text |-> "", duration |-> 0]
    /\ start_date = NoDate
    /\ end_date = NoDate
    /\ store = <<>>
    /\ fetch_count = 0
    /\ fetch_resp = NoResponse
    /\ calendar_events = <<>>
    /\ context = NoContext
    /\ agent_outcome = NoOutcome
    /\ result = NoResult
    /\ escaped = "none"

\* Run q: the flow is entered and its fetch task issues the HTTP GET; nothing
\* makes it wait for the GETs of the other runs.
RunStart(q) ==
    /\ runs[q].pc = "Idle"
    /\ runs' = [runs EXCEPT ![q].pc = AfterStart]
    /\ UNCHANGED <<call_vars, times, client, sessions>>

\* Run q: the GET ends, the fetch task returns, calendar_context is built and
\* the AI task calls the agent.
RunFetchReturn(q) ==
    /\ runs[q].pc = "Fetching"
    /\ \E resp \in Responses(store, start_date, end_date) :
        runs' = [runs EXCEPT ![q] = [pc |-> AfterFetch(resp),
                                     context |-> ContextAfter(resp),
                                     result |-> NoResult]]
    /\ UNCHANGED <<call_vars, times, client, sessions>>

\* Run q: the agent call ended with `outcome`; the AI task returns its dict.
RunFinish(q, outcome) ==
    LET back == process_ai_scheduling_request(process_request_sync(outcome))
    IN  /\ runs' = [runs EXCEPT ![q].pc = Outcome(outcome, back.ret),
                                ![q].result = back.ret]
        /\ UNCHANGED <<call_vars, times, client, sessions>>

RunAgentReturn(q) ==
    /\ runs[q].pc = "Resolving"
    /\ \E out \in SchedulingResult : RunFinish(q, [kind |-> "output", output |-> out])

RunAgentRaise(q) ==
    /\ runs[q].pc = "Resolving"
    /\ \E e \in AgentErrors : RunFinish(q, [kind |-> "raise", error |-> e])

ProcNext ==
    \E q \in Runs :
        \/ RunStart(q)
        \/ RunFetchReturn(q)
        \/ RunAgentReturn(q)
        \/ RunAgentRaise(q)

ProcSpec == ProcInit /\ [][ProcNext]_vars

\* ------------------------------------------------ find_available_times_flow
TimesInit ==
    /\ CallIdle
    /\ runs = NoRuns
    /\ times \in {IdleTimes(d) : d \in RequestedDurations}
    /\ client = NoClient
    /\ sessions = NoSessions

\* find_available_times_flow is entered; the task's client posts the request.
TimesStart ==
    /\ times.pc = "Idle"
    /\ times' = [times EXCEPT !.pc = "Posting"]
    /\ UNCHANGED <<call_vars, runs, client, sessions>>

\* The POST ends; the task returns and the flow builds its answer.
TimesReturn ==
    /\ times.pc = "Posting"
    /\ \E resp \in TimesResponses :
        LET slots == processed_slots(find_available_slots(resp))
        IN  times' = [times EXCEPT !.pc = "Done",
                                   !.available_slots = slots,
                                   !.total_slots_found = Len(slots)]
    /\ UNCHANGED <<call_vars, runs, client, sessions>>

TimesNext == TimesStart \/ TimesReturn

TimesSpec == TimesInit /\ [][TimesNext]_vars

\* ------------------------------------------------ GraphClient operations
PyNone == [kind |-> "None"]
EmptyDict == [kind |-> "dict", keys |-> {}]
ListValue(items) == [kind |-> "list", items |-> items]

AccessTokens == {"placeholder_token", "expired_token"}

\* GraphClient.__init__: self.headers
HeadersFor(token) ==
    [Authorization |-> <<"Bearer ", token>>, ContentType |-> "application/json"]

\* 201 Created is the success status of the create request.
ClientStatusCodes == StatusCodes \cup {201}

\* The body of a response: a JSON object with some of the keys the client
\* reads, or something response.json() raises on.
JsonKeys == {"id", "webLink", "value", "meetingTimeSuggestions"}
NoJson == [valid |-> FALSE, keys |-> {}]
Bodies == {NoJson} \cup {[valid |-> TRUE, keys |-> k] : k \in SUBSET JsonKeys}

\* The ways requests.get / requests.post can end.
ClientResponses ==
    {[kind |-> "status", code |-> c, body |-> b] :
        c \in ClientStatusCodes, b \in Bodies}
    \cup {[kind |-> "exception", code |-> 0, body |-> NoJson]}

\* response.json() of a body that is JSON
Json(resp) == [kind |-> "dict", keys |-> resp.body.keys]

\* d.get(key) of a dict
Get(d, key) == IF key \in d.keys THEN [kind |-> "value", of |-> key] ELSE PyNone

\* The list the server sent under `key`.
SentEvents == <<[start |-> 0, end |-> 1]>>
SentSuggestions == <<[start |-> 0, end |-> 1, confidence |-> 100]>>

\* GraphClient.get_user_info: 200 -> response.json(); other status -> None;
\* exception (also from response.json()) -> None.
get_user_info(resp) ==
    IF resp.kind = "exception" THEN Returned(PyNone)
    ELSE IF resp.code = 200
         THEN (IF resp.body.valid THEN Returned(Json(resp)) ELSE Returned(PyNone))
         ELSE Returned(PyNone)

\* GraphClient.get_calendar_events on a response of this shape.
client_get_calendar_events(resp) ==
    Returned(ListValue(get_calendar_events(
        [kind |-> IF resp.kind = "status" /\ resp.code = 200 /\ ~resp.body.valid
                  THEN "exception" ELSE resp.kind,
         code |-> resp.code,
         has_value |-> "value" \in resp.body.keys,
         value |-> IF "value" \in resp.body.keys THEN SentEvents ELSE <<>>])))

\* create_meeting that takes every 200 and 201 for a success.
create_meeting_any2xx(resp) ==
    IF resp.kind = "exception" THEN Returned(PyNone)
    ELSE IF resp.code \in {200, 201}
         THEN (IF resp.body.valid THEN Returned(Json(resp)) ELSE Returned(PyNone))
         ELSE Returned(PyNone)

\* GraphClient.create_meeting: 201 -> response.json(); other status -> None;
\* exception -> None.
create_meeting(resp) ==
    IF resp.kind = "exception" THEN Returned(PyNone)
    ELSE IF resp.code = 201
         THEN (IF resp.body.valid THEN Returned(Json(resp)) ELSE Returned(PyNone))
         ELSE Returned(PyNone)

\* get_free_busy without its except branch: the exception propagates.
get_free_busy_unguarded(resp) ==
    IF resp.kind = "exception" THEN Raised("RequestException")
    ELSE IF resp.code = 200
         THEN (IF resp.body.valid THEN Returned(Json(resp))
               ELSE Raised("JSONDecodeError"))
         ELSE Returned(EmptyDict)

\* GraphClient.get_free_busy: 200 -> response.json(); other status -> {};
\* exception -> {}.
get_free_busy(resp) ==
    IF resp.kind = "exception" THEN Returned(EmptyDict)
    ELSE IF resp.code = 200
         THEN (IF resp.body.valid THEN Returned(Json(resp)) ELSE Returned(EmptyDict))
         ELSE Returned(EmptyDict)

\* GraphClient.find_meeting_times on a response of this shape.
client_find_meeting_times(resp) ==
    Returned(ListValue(find_meeting_times(
        [kind |-> IF resp.kind = "status" /\ resp.code = 200 /\ ~resp.body.valid
                  THEN "exception" ELSE resp.kind,
         code |-> resp.code,
         has_key |-> "meetingTimeSuggestions" \in resp.body.keys,
         suggestions |-> IF "meetingTimeSuggestions" \in resp.body.keys
                         THEN SentSuggestions ELSE <<>>],
        DefaultMaxCandidates)))

ClientOps ==
    {"get_user_info", "get_calendar_events", "create_meeting", "get_free_busy",
     "find_meeting_times"}

\* The operation is called directly, or create_meeting by create_meeting_flow.
ClientEntries == ClientOps \cup {"create_meeting_flow"}

OpOf(e) == IF e = "create_meeting_flow" THEN "create_meeting" ELSE e

Operation(op, resp) ==
    CASE op = "get_user_info" -> get_user_info(resp)
      [] op = "get_calendar_events" -> client_get_calendar_events(resp)
      [] op = "create_meeting" -> create_meeting(resp)
      [] op = "get_free_busy" -> get_free_busy(resp)
      [] op = "find_meeting_times" -> client_find_meeting_times(resp)

\* task create_calendar_meeting: the client's answer, None on any exception.
create_calendar_meeting(call) == IF call.exc = "none" THEN call.ret ELSE PyNone

\* `if meeting_result:` None and {} are false.
Truthy(v) == v.kind = "dict" /\ v.keys # {}

\* create_meeting_flow: the dict it returns for the task's result.
create_meeting_flow(meeting_result) ==
    IF Truthy(meeting_result)
    THEN [success |-> TRUE,
          meeting_id |-> Get(meeting_result, "id"),
          meeting_url |-> Get(meeting_result, "webLink")]
    ELSE [success |-> FALSE, error |-> "Failed to create meeting"]

IdleClient(e, token) ==
    [pc |-> "Idle", entry |-> e, arg_token |-> token, access_token |-> PyNone,
     headers |-> PyNone, requests |-> 0, resp |-> NoResponse, ret |-> NoResult,
     exc |-> "none", flow_ret |-> NoResult]

ClientInit ==
    /\ CallIdle
    /\ runs = NoRuns
    /\ times = NoTimes
    /\ client \in {IdleClient(e, t) : e \in ClientEntries, t \in AccessTokens}
    /\ sessions = NoSessions

\* GraphClient(access_token) is constructed and the operation issues its
\* HTTP request.
ClientCall ==
    /\ client.pc = "Idle"
    /\ client' = [client EXCEPT !.pc = "Requesting",
                                 !.access_token = client.arg_token,
                                 !.headers = HeadersFor(client.arg_token),
                                 !.requests = client.requests + 1]
    /\ UNCHANGED <<call_vars, runs, times, sessions>>

\* The HTTP request ends and the operation returns; create_meeting_flow
\* builds its answer from the task's result.
ClientReturn ==
    /\ client.pc = "Requesting"
    /\ \E resp \in ClientResponses :
        LET call == Operation(OpOf(client.entry), resp)
        IN  client' = [client EXCEPT
                !.pc = "Done",
                !.resp = resp,
                !.ret = call.ret,
                !.exc = IF client.entry = "create_meeting_flow" THEN "none"
                        ELSE call.exc,
                !.flow_ret = IF client.entry = "create_meeting_flow"
                             THEN create_meeting_flow(create_calendar_meeting(call))
                             ELSE NoResult]
    /\ UNCHANGED <<call_vars, runs, times, sessions>>

ClientNext == ClientCall \/ ClientReturn

ClientSpec == ClientInit /\ [][ClientNext]_vars

\* ------------------------------------------------------------ dashboard
MaxSessions == 2
MaxScriptRuns == 6

SessionKeys == {"authenticated", "access_token", "user_info", "calendar_events"}

\* st.session_state of a browser session: the keys present and their values
\* (the value of an absent key is not read).
FreshSessionState ==
    [present |-> {}, authenticated |-> FALSE, access_token |-> PyNone,
     user_info |-> PyNone, calendar_events |-> <<>>]

\* initialize_session_state: every absent key gets its default.
initialize_session_state(ss) ==
    [present |-> ss.present \cup SessionKeys,
     authenticated |-> IF "authenticated" \in ss.present
                       THEN ss.authenticated ELSE FALSE,
     access_token |-> IF "access_token" \in ss.present
                      THEN ss.access_token ELSE PyNone,
     user_info |-> IF "user_info" \in ss.present THEN ss.user_info ELSE PyNone,
     calendar_events |-> IF "calendar_events" \in ss.present
                         THEN ss.calendar_events ELSE <<>>]

\* The Login handler with the authentication flow carried out.
login_clicked_authenticating(ss) ==
    [ss EXCEPT !.authenticated = TRUE,
               !.access_token = [kind |-> "str", of |-> "access_token"],
               !.user_info = [kind |-> "dict", keys |-> {"name"}]]

\* `if st.button("Login with Microsoft")`: st.info only; the session state
\* is left as it is.
login_clicked(ss) == ss

\* `if st.button("Logout")`: every key is deleted.
logout_clicked(ss) == FreshSessionState

\* One pass of main() over the session state with the button clicked (if
\* any): what it leaves in the session state, what it shows, and whether it
\* ended in st.rerun().
main_pass(ss0, click) ==
    LET ss == initialize_session_state(ss0)
        login == ~ss.authenticated /\ click = "Login with Microsoft"
        logout == ss.authenticated /\ click = "Logout"
        after == IF login THEN login_clicked(ss)
                 ELSE IF logout THEN logout_clicked(ss)
                 ELSE ss
    IN  [session_state |-> after,
         rerun |-> logout,
         info |-> login,
         buttons |-> IF ss.authenticated THEN {"Logout"}
                     ELSE {"Login with Microsoft"},
         view |-> IF logout THEN "none"
                  ELSE IF after.authenticated THEN "authenticated"
                  ELSE "login"]

\* main(): a pass, and the pass st.rerun() starts when Logout was clicked.
main(ss0, click) ==
    LET first == main_pass(ss0, click)
    IN  IF first.rerun THEN main_pass(first.session_state, "none") ELSE first

FreshSession ==
    [session_state |-> FreshSessionState, view |-> "none", info |-> FALSE,
     buttons |-> {}, script_runs |-> 0]

DashInit ==
    /\ CallIdle
    /\ runs = NoRuns
    /\ times = NoTimes
    /\ client = NoClient
    /\ sessions = [s \in 1..MaxSessions |-> FreshSession]

\* Streamlit runs the script for session s: on page load, or on a click of
\* one of the buttons the previous run rendered.
MainRun(s) ==
    /\ sessions[s].script_runs < MaxScriptRuns
    /\ \E click \in {"none"} \cup sessions[s].buttons :
        LET shown == main(sessions[s].session_state, click)
        IN  sessions' = [sessions EXCEPT ![s] =
                [session_state |-> shown.session_state,
                 view |-> shown.view,
                 info |-> shown.info,
                 buttons |-> shown.buttons,
                 script_runs |-> sessions[s].script_runs + 1]]
    /\ UNCHANGED <<call_vars, runs, times, client>>

DashNext == \E s \in 1..MaxSessions : MainRun(s)

DashSpec == DashInit /\ [][DashNext]_vars

\* ---------------------------------------------------------------- claims
Done == pc \in Terminal

\* Half-open intervals [s1, e1) and [s2, e2) share an instant.
Overlaps(s1, e1, s2, e2) == s1 < e2 /\ s2 < e1

\* The events the agent was given for the query.
GivenEvents ==
    IF context.calendar.kind = "calendar" THEN context.calendar.events ELSE <<>>

FetchFailed(resp) == ~(resp.kind = "status" /\ resp.code = 200)

\* C1: no suggested slot of a finished call overlaps an event of the calendar
\* the call was given (with an event [0, 2) the slot [1, 2) is never offered).
C1_NoSlotOverlapsBusy ==
    Done =>
        \A i \in DOMAIN result.suggested_slots :
            \A j \in DOMAIN GivenEvents :
                ~Overlaps(result.suggested_slots[i].start_time,
                          result.suggested_slots[i].end_time,
                          GivenEvents[j].start, GivenEvents[j].end)

\* C2: every suggested slot of a finished flow is at least as long as the
\* requested duration and lies inside the date range of the query.
C2_SlotsFitDurationAndWindow ==
    (Done /\ entry = "flow") =>
        \A i \in DOMAIN result.suggested_slots :
            LET slot == result.suggested_slots[i]
            IN  /\ slot.end_time - slot.start_time >= user_request.duration
                /\ start_date <= slot.start_time
                /\ slot.end_time <= end_date

FlowTransitions ==
    {<<"Idle", "Fetching">>, <<"Fetching", "Resolving">>}
        \cup {<<"Resolving", t>> : t \in Terminal}

\* C3: a flow run moves Idle -> Fetching -> Resolving -> one of Succeeded,
\* Conflicted, Failed: every change of position is one of these steps,
\* Resolving is entered only with the fetch ended, and an outcome is never left.
C3_StateOrder ==
    [][entry = "flow" =>
          /\ (pc' # pc => <<pc, pc'>> \in FlowTransitions)
          /\ (pc' = "Resolving" => fetch_resp' # NoResponse /\ fetch_count' = 1)
          /\ (pc \in Terminal => pc' = pc /\ result' = result)]_vars

\* A flow run that fetched, resolved and reached an outcome.
C3_Witness ==
    /\ entry = "flow"
    /\ pc \in Terminal
    /\ fetch_resp # NoResponse
    /\ agent_outcome # NoOutcome

\* C4: when the agent returned, success is true exactly when there is at
\* least one suggested slot, and an unsuccessful result reports a conflict.
C4_SuccessIffSlots ==
    (Done /\ agent_outcome.kind = "output") =>
        /\ (result.success <=> Len(result.suggested_slots) >= 1)
        /\ (~result.success => Len(result.conflicts) >= 1)

EmptyCalendarResponse ==
    [kind |-> "status", code |-> 200, has_value |-> TRUE, value |-> <<>>]

TimeoutResponse ==
    [kind |-> "exception", code |-> 0, has_value |-> FALSE, value |-> <<>>]

\* C6: once the fetch of a flow run has failed, the run goes on with that
\* calendar marked unknown: what the AI task is given is not what it is given
\* for a calendar that was fetched and is empty.
C6_FailedFetchIsUnknown ==
    (entry = "flow" /\ pc \in ({"Resolving"} \cup Terminal)
        /\ FetchFailed(fetch_resp))
        => context # ContextAfter(EmptyCalendarResponse)

WellFormedResult(r) ==
    /\ DOMAIN r = {"success", "suggested_slots", "meeting_details", "conflicts"}
    /\ r.success \in BOOLEAN
    /\ DOMAIN r.meeting_details = {"title", "duration_minutes", "attendees"}

\* C7: no exception reaches the caller of a finished call; process_request and
\* process_request_sync return a well-formed SchedulingResult, which is the
\* fixed error result when the agent call raised.
C7_NoRawException ==
    Done =>
        /\ escaped = "none"
        /\ (entry \in {"sync", "async"} =>
                /\ WellFormedResult(result)
                /\ (agent_outcome.kind = "raise" =>
                        result = ErrorResult(agent_outcome.error)))

\* process_request_sync on the empty request with the agent call raising.
C7_Witness ==
    /\ entry = "sync"
    /\ user_request.text = ""
    /\ pc = "Failed"
    /\ agent_outcome.kind = "raise"
    /\ ~result.success

\* C8: a flow run whose request has a duration of zero or less, or whose date
\* range ends before it starts, issues no calendar fetch.
C8_InvalidQueryNoFetch ==
    (entry = "flow" /\ pc # "Idle"
        /\ (user_request.duration <= 0 \/ end_date < start_date))
        => fetch_count = 0

\* C9: a fetch answered RateLimited (429) or Unavailable (503) leaves the run
\* as a timed-out fetch does, and a fetch answered NotAuthorized (401) leaves
\* it in a way that differs from a timed-out fetch.
C9_ErrorKindsDistinguished ==
    (entry = "flow" /\ pc \in ({"Resolving"} \cup Terminal)
        /\ fetch_resp.kind = "status")
        => /\ (fetch_resp.code \in TransientCodes
                  => context = ContextAfter(TimeoutResponse))
           /\ (fetch_resp.code \in NotAuthorizedCodes
                  => context # ContextAfter(TimeoutResponse))

\* C10: whatever the calendar store does, Fetching ends.
C10_FetchingEnds == (pc = "Fetching") ~> (pc # "Fetching")

\* The GETs for calendar events that are in flight in the process.
InFlight == Cardinality({q \in Runs : runs[q].pc = "Fetching"})

\* C11: the fetches in flight in the process never exceed the fetch
\* concurrency limit (MaxRuns - 1, the loosest limit that limits anything in a
\* process of MaxRuns callers), and a run that got the meeting's attendees
\* from the agent has started a fetch of every attendee's calendar.
C11_FetchesBoundedAndStarted ==
    /\ InFlight <= MaxRuns - 1
    /\ \A q \in Runs :
          (runs[q].pc \in {"Succeeded", "Conflicted"}) =>
              \A i \in DOMAIN runs[q].result.meeting_details.attendees :
                  runs[q].result.meeting_details.attendees[i]
                      \in FetchedCalendars(runs[q])

\* C12: the busy intervals of the attendee that resolution works on are
\* sorted by start, and of two consecutive ones the first ends strictly
\* before the second starts (neither overlapping nor touching).
C12_BusyIntervalsMerged ==
    (pc \in ({"Resolving"} \cup Terminal)) =>
        \A j \in 1..(Len(GivenEvents) - 1) :
            /\ GivenEvents[j].start <= GivenEvents[j + 1].start
            /\ GivenEvents[j].end < GivenEvents[j + 1].start

\* C13: resolution never works on an event whose start is not before its
\* end: building the busy intervals has failed on it before.
C13_InvalidEventRejected ==
    (pc \in ({"Resolving"} \cup Terminal)) =>
        \A j \in DOMAIN GivenEvents : GivenEvents[j].start < GivenEvents[j].end

\* C14: two runs of the scheduling operation that were given the same request
\* and the same calendar, and whose agent returned, offer the same candidate
\* slots in the same order.
C14_SameInputSameSlots ==
    \A p, q \in Runs :
        (/\ runs[p].pc \in {"Succeeded", "Conflicted"}
         /\ runs[q].pc \in {"Succeeded", "Conflicted"}
         /\ runs[p].context = runs[q].context)
            => runs[p].result.suggested_slots = runs[q].result.suggested_slots

\* The agent returned for a request of one step (60 minutes) over the window
\* [0, MaxTime] and the calendar `events`.
ScenarioDone(events) ==
    /\ Done
    /\ agent_outcome.kind = "output"
    /\ context = AgentContext([text |-> "meeting", duration |-> 1],
                              calendar_context(events, 0, MaxTime))

\* C15: with the single event [0, 1) (09:00-09:30) the result is Succeeded and
\* holds a candidate that starts exactly where the event ends.
C15_SlotStartsAtBusyEnd ==
    ScenarioDone(<<[start |-> 0, end |-> 1]>>) =>
        /\ pc = "Succeeded"
        /\ \E i \in DOMAIN result.suggested_slots :
              /\ result.suggested_slots[i].start_time = 1
              /\ result.suggested_slots[i].end_time = 2

\* C16: with an empty calendar the result is Succeeded with at least one
\* candidate, one of which is the first step (60 minutes) of the window.
C16_EmptyCalendarSucceeds ==
    ScenarioDone(<<>>) =>
        /\ pc = "Succeeded"
        /\ Len(result.suggested_slots) >= 1
        /\ \E i \in DOMAIN result.suggested_slots :
              /\ result.suggested_slots[i].start_time = 0
              /\ result.suggested_slots[i].end_time = 1

\* C17: with events back to back over the whole window and a request of at
\* least one step (a fortiori the two-hour one) the result is Conflicted, with
\* no candidate and at least one reported conflict.
C17_BackToBackConflicted ==
    (/\ Done
     /\ agent_outcome.kind = "output"
     /\ user_request.duration >= 1
     /\ context = AgentContext(user_request, busy_calendar_data))
        => /\ pc = "Conflicted"
           /\ Len(result.suggested_slots) = 0
           /\ Len(result.conflicts) >= 1

\* No event of `events` covers the step [t, t + 1).
FreeStep(events, t) ==
    \A j \in DOMAIN events : ~Overlaps(t, t + 1, events[j].start, events[j].end)

\* Reference: the maximal gaps of the window [ws, we) that no event covers,
\* those of length at least d (the complement of the union of the events).
FreeGaps(events, ws, we, d) ==
    {g \in [start : ws..we, end : ws..we] :
        /\ g.start < g.end
        /\ \A t \in g.start..(g.end - 1) : FreeStep(events, t)
        /\ (g.start = ws \/ ~FreeStep(events, g.start - 1))
        /\ (g.end = we \/ ~FreeStep(events, g.end))
        /\ g.end - g.start >= d}

\* C18: the free time the operation offers is that of the reference: every
\* offered slot lies inside one of the maximal uncovered gaps of the window
\* that are at least as long as the requested duration, and slots are offered
\* exactly when there is such a gap.
C18_OfferedTimeIsReferenceGaps ==
    (Done /\ agent_outcome.kind = "output" /\ context.calendar.kind = "calendar"
        /\ user_request.duration >= 1)
        => LET gaps == FreeGaps(GivenEvents, context.calendar.date_range.start,
                                context.calendar.date_range.end,
                                user_request.duration)
           IN  /\ \A i \in DOMAIN result.suggested_slots :
                     \E g \in gaps :
                         /\ g.start <= result.suggested_slots[i].start_time
                         /\ result.suggested_slots[i].end_time <= g.end
               /\ (gaps = {} <=> result.suggested_slots = <<>>)

\* C19: the ranked slots number at most max_candidates, are ordered by
\* confidence descending with equal confidences ordered by start ascending,
\* and every confidence lies in [0, 1].
C19_RankedOutput ==
    (times.pc = "Done") =>
        LET out == times.available_slots
        IN  /\ Len(out) <= DefaultMaxCandidates
            /\ \A i \in 1..(Len(out) - 1) :
                  \/ out[i].confidence > out[i + 1].confidence
                  \/ /\ out[i].confidence = out[i + 1].confidence
                     /\ out[i].start_time <= out[i + 1].start_time
            /\ \A i \in DOMAIN out :
                  0 <= out[i].confidence /\ out[i].confidence <= 1

\* C20: conflicts are reported only when no slot was found: a result of the
\* agent that lists a conflict offers no slot, and when the calendar is known
\* the window holds no uncovered gap of the requested duration.
C20_ConflictsOnlyWithoutSlots ==
    (Done /\ agent_outcome.kind = "output" /\ Len(result.conflicts) >= 1)
        => /\ Len(result.suggested_slots) = 0
           /\ (context.calendar.kind = "calendar" /\ user_request.duration >= 1)
                  => FreeGaps(GivenEvents, context.calendar.date_range.start,
                              context.calendar.date_range.end,
                              user_request.duration) = {}

\* Reference: the maximal runs of steps that some event of `events` covers
\* (overlapping and touching events fall into one run).
BusyRuns(events) ==
    {g \in [start : Time, end : Time] :
        /\ g.start < g.end
        /\ \A t \in g.start..(g.end - 1) : ~FreeStep(events, t)
        /\ FreeStep(events, g.start - 1)
        /\ FreeStep(events, g.end)}

\* Reference build: the runs in ascending order, whatever the order of `events`.
Rebuilt(events) ==
    LET S == BusyRuns(events)
    IN  CHOOSE q \in [1..Cardinality(S) -> S] :
            \A i \in 1..(Cardinality(S) - 1) : q[i].start < q[i + 1].start

\* C21: the busy intervals resolution works on (of valid events) are already
\* merged and in canonical order: building them again, from any order of the
\* same events, yields the same sequence.
C21_RebuildChangesNothing ==
    (/\ pc \in ({"Resolving"} \cup Terminal)
     /\ \A j \in DOMAIN GivenEvents : GivenEvents[j].start < GivenEvents[j].end)
        => Rebuilt(GivenEvents) = GivenEvents

\* C22: one call issues at most one fetch: the count of HTTP GETs for calendar
\* events never exceeds one, and it is exactly one once a GET has ended, also
\* when it ended in a failure or a timeout (no retry).
C22_AtMostOneFetch ==
    /\ fetch_count <= 1
    /\ (fetch_resp # NoResponse => fetch_count = 1)

\* A flow run whose only fetch failed and which went on to its outcome.
C22_Witness ==
    /\ entry = "flow"
    /\ Done
    /\ FetchFailed(fetch_resp)
    /\ fetch_count = 1

\* C23: when the agent call raised, process_request and process_request_sync
\* return the fixed error result (success false, no slot, one conflict
\* "Error processing request: <error>", title "Error parsing request",
\* duration 30, no attendee), which has the shape of any other result; and for
\* the same end of the agent call the two entry points return the same.
C23_SameFixedErrorResult ==
    (Done /\ entry \in {"sync", "async"}) =>
        /\ (agent_outcome.kind = "raise" =>
                /\ result.success = FALSE
                /\ result.suggested_slots = <<>>
                /\ result.conflicts =
                       <<[prefix |-> "Error processing request: ",
                          detail |-> agent_outcome.error]>>
                /\ result.meeting_details =
                       [title |-> "Error parsing request",
                        duration_minutes |-> 30, attendees |-> <<>>]
                /\ WellFormedResult(result))
        /\ result = process_request(agent_outcome).ret
        /\ result = process_request_sync(agent_outcome).ret

\* process_request (the async entry point) with the agent call raising.
C23_Witness ==
    /\ entry = "async"
    /\ pc = "Failed"
    /\ agent_outcome.kind = "raise"
    /\ Len(result.conflicts) = 1

\* C24: in a flow run the AI step has not started while the fetch is going
\* on; once it has started the fetch has ended, the events it was given are
\* those the flow returns as 'calendar_events' (the server's answer after a
\* 200 with a value, the empty list after a failed fetch, which is then the
\* context of a calendar without events); and the AI step has ended exactly
\* when the run has reached its outcome.
C24_FetchThenAiOnce ==
    (entry = "flow") =>
        /\ (pc \in {"Idle", "Fetching"} =>
                context = NoContext /\ agent_outcome = NoOutcome)
        /\ (pc \in ({"Resolving"} \cup Terminal) =>
                /\ fetch_resp # NoResponse
                /\ context.calendar.kind = "calendar"
                /\ context.calendar.events = calendar_events
                /\ ((~FetchFailed(fetch_resp) /\ fetch_resp.has_value)
                        => calendar_events = fetch_resp.value)
                /\ (FetchFailed(fetch_resp) =>
                        /\ calendar_events = <<>>
                        /\ context = ContextAfter(EmptyCalendarResponse)))
        /\ (pc = "Resolving" => agent_outcome = NoOutcome)
        /\ (pc \in Terminal => agent_outcome # NoOutcome)

\* A flow run over a calendar that holds an event, whose fetch failed and
\* whose AI step ran on the empty list.
C24_Witness ==
    /\ entry = "flow"
    /\ Done
    /\ store # <<>>
    /\ FetchFailed(fetch_resp)
    /\ GivenEvents = <<>>
    /\ agent_outcome.kind = "output"

SuccessCode(op) == IF op = "create_meeting" THEN 201 ELSE 200

\* The value an operation returns when it has nothing to return.
EmptyValue(op) ==
    CASE op \in {"get_user_info", "create_meeting"} -> PyNone
      [] op \in {"get_calendar_events", "find_meeting_times"} -> ListValue(<<>>)
      [] op = "get_free_busy" -> EmptyDict

\* The request did not end in the operation's success status with a JSON body.
RequestFailed(op, resp) ==
    \/ resp.kind = "exception"
    \/ resp.code # SuccessCode(op)
    \/ ~resp.body.valid

\* C25: no GraphClient operation raises to its caller; an operation whose
\* request ended in an exception or in another status than its success status
\* returns its empty value (None, [] or {}); the client's token and headers are
\* those it was constructed with.
C25_ClientNeverRaises ==
    /\ (client.pc \in {"Requesting", "Done"} =>
            /\ client.access_token = client.arg_token
            /\ client.headers = HeadersFor(client.arg_token))
    /\ (client.pc = "Done" =>
            /\ client.exc = "none"
            /\ (RequestFailed(OpOf(client.entry), client.resp)
                    => client.ret = EmptyValue(OpOf(client.entry))))

\* get_free_busy called directly, its POST ending in an exception.
C25_Witness ==
    /\ client.pc = "Done"
    /\ client.entry = "get_free_busy"
    /\ client.resp.kind = "exception"
    /\ client.ret = EmptyDict

\* C26: create_meeting_flow reports success exactly when the create request
\* was answered 201 with a non-empty JSON body; otherwise it reports success
\* false with the error 'Failed to create meeting'; a run issues one request.
C26_CreateSuccessIff201 ==
    (client.pc = "Done" /\ client.entry = "create_meeting_flow") =>
        /\ (client.flow_ret.success <=>
                /\ client.resp.kind = "status"
                /\ client.resp.code = 201
                /\ client.resp.body.valid
                /\ client.resp.body.keys # {})
        /\ (~client.flow_ret.success =>
                client.flow_ret =
                    [success |-> FALSE, error |-> "Failed to create meeting"])
        /\ client.requests = 1

\* A run of create_meeting_flow answered 200 (not 201) with a full body.
C26_Witness ==
    /\ client.pc = "Done"
    /\ client.entry = "create_meeting_flow"
    /\ client.resp.kind = "status"
    /\ client.resp.code = 200
    /\ "id" \in client.resp.body.keys
    /\ ~client.flow_ret.success

\* C27: the authenticated interface is shown only while
\* session_state.authenticated is true; once the script has run, the four
\* session keys exist, authenticated is false and there is no access token;
\* whatever is clicked from a fresh session, the authenticated interface is
\* never shown.
C27_NeverAuthenticated ==
    \A s \in DOMAIN sessions :
        /\ (sessions[s].view = "authenticated"
                => sessions[s].session_state.authenticated)
        /\ (sessions[s].script_runs >= 1 =>
                /\ sessions[s].session_state.present = SessionKeys
                /\ sessions[s].session_state.authenticated = FALSE
                /\ sessions[s].session_state.access_token = PyNone)
        /\ sessions[s].view # "authenticated"

\* A session in which Login was clicked twice: the info message is shown
\* over the login interface.
C27_Witness ==
    \E s \in DOMAIN sessions :
        /\ sessions[s].script_runs >= 3
        /\ sessions[s].info
        /\ sessions[s].view = "login"
        /\ sessions[s].buttons = {"Login with Microsoft"}

====
